---- MODULE Spec2Model ----
(***************************************************************************)
(* The exchange-level reliability layer of circuitmatter                   *)
(* (src/circuitmatter/exchange.py): one Exchange object, the two exchange  *)
(* registries of its session, the messages it hands to session.send and    *)
(* the monotonic clock its deadlines are compared with.                    *)
(*                                                                         *)
(* Every method of Exchange is an operator from a state record to the      *)
(* state record after the call, so that a method calling another method    *)
(* (receive -> send_standalone -> send) is one step.  Times are in         *)
(* milliseconds.                                                           *)
(***************************************************************************)
EXTENDS Integers, Sequences, FiniteSets, TLC

VARIABLES
    initiator,                  \* Exchange.initiator
    exchange_id,                \* Exchange.exchange_id
    protocols,                  \* Exchange.protocols
    pending_acknowledgement,    \* message counter we owe an ack for, or None
    send_standalone_time,       \* deadline of the standalone ack, or None
    next_retransmission_time,   \* deadline of the retransmission, or None
    pending_retransmission,     \* the reliable Message not yet acked, or NoMessage
    pending_payloads,           \* queue of payloads
    closing,                    \* Exchange._closing
    initiator_exchanges,        \* session.initiator_exchanges (its keys)
    responder_exchanges,        \* session.responder_exchanges (its keys)
    message_counter,            \* the session's next outgoing message counter
    received,                   \* message counters the transport has seen
    now,                        \* time.monotonic(), in ms
    sent,                       \* messages handed to session.send by the last call
    op,                         \* the last call and its arguments
    ret,                        \* how the last call ended
    acks                        \* per peer counter: how its acknowledgement was generated

vars == <<initiator, exchange_id, protocols, pending_acknowledgement,
          send_standalone_time, next_retransmission_time, pending_retransmission,
          pending_payloads, closing, initiator_exchanges, responder_exchanges,
          message_counter, received, now, sent, op, ret, acks>>

-----------------------------------------------------------------------------
(* Bounds of the model *)

\* outgoing message counters run from 0 to MaxSends
MaxSends == 2

\* incoming message counters are 1..MaxPeerCounter
MaxPeerCounter == 2

\* the clock stops advancing at MaxTime ms
MaxTime == 200

\* pending_payloads holds at most MaxPayloads payloads
MaxPayloads == 1

-----------------------------------------------------------------------------
(* Constants of the program *)

MRP_STANDALONE_ACK_TIMEOUT_MS == 200

\* time.monotonic() + 0.1
RETRANSMISSION_INTERVAL_MS == 100

\* Python's None, for the optional counters and deadlines
None == -1

\* Python's None in a slot that holds a Message
NoMessage == [message_counter |-> None]

SECURE_CHANNEL == "SECURE_CHANNEL"

INTERACTION_MODEL == "INTERACTION_MODEL"

MRP_STANDALONE_ACK == "MRP_STANDALONE_ACK"

ProtocolIds == {SECURE_CHANNEL, INTERACTION_MODEL}

\* application payloads: a plain one and a ChunkedMessage
Payloads == {"plain", "chunked"}

\* isinstance(application_payload, ChunkedMessage)
IsChunked(application_payload) == application_payload = "chunked"

\* application_payload.PROTOCOL_ID
PROTOCOL_ID(application_payload) == INTERACTION_MODEL

\* application_payload.PROTOCOL_OPCODE
PROTOCOL_OPCODE(application_payload) ==
    IF IsChunked(application_payload) THEN "REPORT_DATA" ELSE "INVOKE_REQUEST"

PeerCounters == 1..MaxPeerCounter

LocalCounters == 0..(MaxSends - 1)

-----------------------------------------------------------------------------
(* The state a call starts from: nothing handed to the session yet, no      *)
(* outcome yet.                                                             *)

State ==
    [initiator |-> initiator,
     exchange_id |-> exchange_id,
     protocols |-> protocols,
     pending_acknowledgement |-> pending_acknowledgement,
     send_standalone_time |-> send_standalone_time,
     next_retransmission_time |-> next_retransmission_time,
     pending_retransmission |-> pending_retransmission,
     pending_payloads |-> pending_payloads,
     closing |-> closing,
     initiator_exchanges |-> initiator_exchanges,
     responder_exchanges |-> responder_exchanges,
     message_counter |-> message_counter,
     now |-> now,
     sent |-> <<>>,
     ret |-> "None"]

\* the exchange is in the registry of its role under its own id
Registered(s) ==
    s.exchange_id \in (IF s.initiator THEN s.initiator_exchanges
                                      ELSE s.responder_exchanges)

\* session.send(message): stamps a message that has no counter yet with the
\* session's next counter and hands it to the transport
session_send(s, message) ==
    IF message.message_counter = None
    THEN [s EXCEPT !.sent = Append(@, [message EXCEPT !.message_counter = s.message_counter]),
                   !.message_counter = @ + 1]
    ELSE [s EXCEPT !.sent = Append(@, message)]

pop_exchange_of_other_role(s) ==
    IF ~Registered(s) THEN [s EXCEPT !.ret = "KeyError"]
    ELSE IF s.initiator
         THEN [s EXCEPT !.responder_exchanges = @ \ {s.exchange_id}]
         ELSE [s EXCEPT !.initiator_exchanges = @ \ {s.exchange_id}]

\* self.session.<registry of the role>.pop(self.exchange_id)
pop_exchange(s) ==
    IF ~Registered(s) THEN [s EXCEPT !.ret = "KeyError"]
    ELSE IF s.initiator
         THEN [s EXCEPT !.initiator_exchanges = @ \ {s.exchange_id}]
         ELSE [s EXCEPT !.responder_exchanges = @ \ {s.exchange_id}]

\* the Message built by send before it is handed over
send_message(s, application_payload, protocol_id, protocol_opcode, reliable) ==
    [exchange_flags |->
         (IF s.initiator THEN {"I"} ELSE {})
         \cup (IF s.pending_acknowledgement # None THEN {"A"} ELSE {})
         \cup (IF reliable THEN {"R"} ELSE {}),
     acknowledged_message_counter |-> s.pending_acknowledgement,
     message_counter |-> None,
     protocol_id |-> protocol_id,
     protocol_opcode |-> protocol_opcode,
     exchange_id |-> s.exchange_id,
     application_payload |-> application_payload]

\* send, lines 67-71: the owed acknowledgement goes onto the message and
\* the exchange stops owing it
piggyback_keeps_owed(s) ==
    IF s.pending_acknowledgement # None
    THEN [s EXCEPT !.send_standalone_time = None]
    ELSE s

piggyback(s) ==
    IF s.pending_acknowledgement # None
    THEN [s EXCEPT !.send_standalone_time = None,
                   !.pending_acknowledgement = None]
    ELSE s

send_accepted_requeues_at_back(s, application_payload, more, protocol_id, protocol_opcode, reliable) ==
    LET message == send_message(s, application_payload, protocol_id,
                                protocol_opcode, reliable)
        s1 == piggyback(s)
        s2 == IF reliable
              THEN [s1 EXCEPT !.next_retransmission_time =
                                  s.now + RETRANSMISSION_INTERVAL_MS]
              ELSE s1
        s3 == IF IsChunked(application_payload) /\ more
              THEN [s2 EXCEPT !.pending_payloads = Append(@, application_payload)]
              ELSE s2
        s4 == session_send(s3, message)
    IN  IF reliable
        THEN [s4 EXCEPT !.pending_retransmission = s4.sent[Len(s4.sent)]]
        ELSE s4

\* send past its guard, lines 63-93; more is
\* application_payload.MoreChunkedMessages after encode_into
send_accepted(s, application_payload, more, protocol_id, protocol_opcode, reliable) ==
    LET message == send_message(s, application_payload, protocol_id,
                                protocol_opcode, reliable)
        s1 == piggyback(s)
        s2 == IF reliable
              THEN [s1 EXCEPT !.next_retransmission_time =
                                  s.now + RETRANSMISSION_INTERVAL_MS]
              ELSE s1
        s3 == IF IsChunked(application_payload) /\ more
              THEN [s2 EXCEPT !.pending_payloads = <<application_payload>> \o @]
              ELSE s2
        s4 == session_send(s3, message)
    IN  \* the stored message is the object the session stamped
        IF reliable
        THEN [s4 EXCEPT !.pending_retransmission = s4.sent[Len(s4.sent)]]
        ELSE s4

send_unguarded(s, application_payload, more, protocol_id, protocol_opcode, reliable) ==
    send_accepted(s, application_payload, more, protocol_id, protocol_opcode, reliable)

send_rejected_piggybacks(s, application_payload, more, protocol_id, protocol_opcode, reliable) ==
    IF s.pending_retransmission # NoMessage
    THEN [piggyback(s) EXCEPT !.ret = "RuntimeError"]
    ELSE send_accepted(s, application_payload, more, protocol_id,
                       protocol_opcode, reliable)

\* Exchange.send
send(s, application_payload, more, protocol_id, protocol_opcode, reliable) ==
    IF s.pending_retransmission # NoMessage
    THEN [s EXCEPT !.ret = "RuntimeError"]
    ELSE send_accepted(s, application_payload, more, protocol_id,
                       protocol_opcode, reliable)

send_standalone_reliably(s) ==
    IF s.pending_retransmission # NoMessage
    THEN session_send(s, s.pending_retransmission)
    ELSE send(s, "None", FALSE, SECURE_CHANNEL, MRP_STANDALONE_ACK, TRUE)

\* Exchange.send_standalone
send_standalone(s) ==
    IF s.pending_retransmission # NoMessage
    THEN session_send(s, s.pending_retransmission)
    ELSE send(s, "None", FALSE, SECURE_CHANNEL, MRP_STANDALONE_ACK, FALSE)

\* Exchange.queue
queue(s, payload) ==
    [s EXCEPT !.pending_payloads = Append(@, payload)]

acknowledged_ignores_payloads(s) ==
    LET s1 == [s EXCEPT !.pending_retransmission = NoMessage,
                        !.next_retransmission_time = None]
    IN  IF s1.closing THEN pop_exchange(s1) ELSE s1

\* receive, the acknowledgement accepted: lines 127-134
acknowledged(s) ==
    LET s1 == [s EXCEPT !.pending_retransmission = NoMessage,
                        !.next_retransmission_time = None]
    IN  IF s1.closing /\ s1.pending_payloads = <<>>
        THEN pop_exchange(s1)
        ELSE s1

\* receive, a message with the Reliability flag: lines 145-157
receive_reliable(s, message) ==
    IF message.duplicate
    THEN [send_standalone(s) EXCEPT !.ret = "True"]
    ELSE
      LET s1 == IF s.pending_acknowledgement # None THEN send_standalone(s) ELSE s
      IN  [s1 EXCEPT !.pending_acknowledgement = message.message_counter,
                     !.send_standalone_time = s.now + MRP_STANDALONE_ACK_TIMEOUT_MS,
                     !.ret = "False"]

receive_body_delivers_duplicates(s, message) ==
    IF message.protocol_id \notin s.protocols
    THEN [s EXCEPT !.ret = "True"]
    ELSE IF "R" \in message.exchange_flags
    THEN receive_reliable(s, message)
    ELSE [s EXCEPT !.ret = "False"]

receive_body_reliable_first(s, message) ==
    IF "R" \in message.exchange_flags /\ ~message.duplicate
    THEN receive_reliable(s, message)
    ELSE IF message.protocol_id \notin s.protocols
    THEN [s EXCEPT !.ret = "True"]
    ELSE [s EXCEPT !.ret = IF message.duplicate THEN "True" ELSE "False"]

\* receive, after the acknowledgement: lines 136-161
receive_body(s, message) ==
    IF message.protocol_id \notin s.protocols
    THEN [s EXCEPT !.ret = "True"]
    ELSE IF "R" \in message.exchange_flags
    THEN receive_reliable(s, message)
    ELSE [s EXCEPT !.ret = IF message.duplicate THEN "True" ELSE "False"]

receive_accepts_any_counter(s, message) ==
    IF "A" \in message.exchange_flags
    THEN IF message.acknowledged_message_counter = None
         THEN [s EXCEPT !.ret = "True"]
         ELSE LET s1 == acknowledged(s)
              IN  IF s1.ret = "KeyError" THEN s1 ELSE receive_body(s1, message)
    ELSE receive_body(s, message)

\* Exchange.receive; ret is "True" for drop, "False" for deliver
receive(s, message) ==
    IF "A" \in message.exchange_flags
    THEN IF message.acknowledged_message_counter = None
         THEN [s EXCEPT !.ret = "True"]
         ELSE IF /\ s.pending_retransmission # NoMessage
                 /\ message.acknowledged_message_counter
                        # s.pending_retransmission.message_counter
         THEN [s EXCEPT !.ret = "True"]
         ELSE LET s1 == acknowledged(s)
              IN  IF s1.ret = "KeyError" THEN s1 ELSE receive_body(s1, message)
    ELSE receive_body(s, message)

close_always_destroys(s) ==
    pop_exchange([s EXCEPT !.closing = TRUE])

\* Exchange.close
close(s) ==
    LET s1 == [s EXCEPT !.closing = TRUE]
    IN  IF s1.pending_retransmission # NoMessage
        THEN send_standalone(s1)
        ELSE pop_exchange(s1)

\* Exchange.resend_pending: both early returns, and nothing after them
resend_pending(s) ==
    IF s.pending_retransmission = NoMessage THEN s
    ELSE IF s.now < s.next_retransmission_time THEN s
    ELSE s

\* the periodic standalone-ack flush of the event loop
standalone_ack_flush(s) ==
    IF s.send_standalone_time # None /\ s.now >= s.send_standalone_time
    THEN [send_standalone(s) EXCEPT !.send_standalone_time = None]
    ELSE s

-----------------------------------------------------------------------------
(* Inputs *)

\* the last counter the peer has used, 0 before its first message
LastReceived ==
    IF received = {} THEN 0
    ELSE CHOOSE c \in received : \A d \in received : d <= c

\* the messages the session can route to the exchange; the transport sets
\* duplicate when it has seen the counter before.  The peer has one
\* reliable message outstanding on an exchange: it sends its next counter
\* or repeats its last one (receive reads the flags and the duplicate
\* marker of a message, and stores the counter of one that is not a
\* duplicate).
InboundMessages ==
    { [exchange_flags |-> f, acknowledged_message_counter |-> a,
       message_counter |-> c, protocol_id |-> p, duplicate |-> c \in received] :
         f \in SUBSET {"A", "R"}, a \in {None} \cup LocalCounters,
         c \in PeerCounters \cap {LastReceived, LastReceived + 1},
         p \in ProtocolIds }

\* a message without the Acknowledgement flag carries no acknowledged counter
WellFormed(message) ==
    "A" \notin message.exchange_flags => message.acknowledged_message_counter = None

-----------------------------------------------------------------------------
(* History *)

\* the messages among msgs that send built in the call: the session stamped
\* them with a counter not used before the call (a resent message keeps the
\* counter it had); first is the session's counter before the call
Built(msgs, first) ==
    { msgs[i] : i \in { j \in DOMAIN msgs : msgs[j].message_counter >= first } }

\* how the acknowledgement of peer counter c is generated by the messages
\* built in a call: "standalone" on a standalone ack, "piggybacked" on any
\* other message, "none" when no message built acknowledges c
GeneratedAs(msgs, first, c) ==
    LET carrying == { m \in Built(msgs, first) : /\ "A" \in m.exchange_flags
                                       /\ m.acknowledged_message_counter = c }
    IN  IF carrying = {} THEN "none"
        ELSE IF \E m \in carrying : m.protocol_opcode # MRP_STANDALONE_ACK
        THEN "piggybacked"
        ELSE "standalone"

\* the state after a call: s is the state record the method leaves, o the call
InstallState(s, o) ==
    /\ initiator' = s.initiator
    /\ exchange_id' = s.exchange_id
    /\ protocols' = s.protocols
    /\ pending_acknowledgement' = s.pending_acknowledgement
    /\ send_standalone_time' = s.send_standalone_time
    /\ next_retransmission_time' = s.next_retransmission_time
    /\ pending_retransmission' = s.pending_retransmission
    /\ pending_payloads' = s.pending_payloads
    /\ closing' = s.closing
    /\ initiator_exchanges' = s.initiator_exchanges
    /\ responder_exchanges' = s.responder_exchanges
    /\ message_counter' = s.message_counter
    /\ now' = s.now
    /\ sent' = s.sent
    /\ ret' = s.ret
    /\ op' = o
    /\ acks' = [c \in PeerCounters |->
                    IF acks[c] = "none"
                    THEN GeneratedAs(s.sent, message_counter, c)
                    ELSE acks[c]]

\* the same, within the bounds of the model
Install(s, o) ==
    /\ s.message_counter <= MaxSends
    /\ Len(s.pending_payloads) <= MaxPayloads
    /\ InstallState(s, o)

-----------------------------------------------------------------------------
(* Actions *)

\* the application sends a payload
Send ==
    \E application_payload \in Payloads, more \in BOOLEAN, reliable \in BOOLEAN :
        /\ more => IsChunked(application_payload)
        /\ Install(send(State, application_payload, more,
                        PROTOCOL_ID(application_payload),
                        PROTOCOL_OPCODE(application_payload), reliable),
                   [name |-> "send", reliable |-> reliable])
        /\ UNCHANGED received

SendStandalone ==
    /\ Install(send_standalone(State), [name |-> "send_standalone"])
    /\ UNCHANGED received

Queue ==
    \E payload \in Payloads :
        /\ Install(queue(State, payload), [name |-> "queue", payload |-> payload])
        /\ UNCHANGED received

\* the session routes inbound message `message` to the exchange it finds in
\* its registry.  The call is recorded by the fields of the message the
\* acknowledgement checks and the duplicate checks read.
ReceiveCall(message) ==
    /\ Registered(State)
    /\ WellFormed(message)
    /\ Install(receive(State, message),
               [name |-> "receive", duplicate |-> message.duplicate,
                acknowledged_message_counter |->
                    message.acknowledged_message_counter])
    /\ received' = received \cup {message.message_counter}

Receive ==
    /\ Registered(State)
    /\ \E message \in InboundMessages : ReceiveCall(message)

Close ==
    /\ Install(close(State), [name |-> "close"])
    /\ UNCHANGED received

\* the event loop's retransmission tick
ResendPending ==
    /\ Registered(State)
    /\ Install(resend_pending(State), [name |-> "resend_pending"])
    /\ UNCHANGED received

\* the event loop's standalone-ack tick
StandaloneAckFlush ==
    /\ Registered(State)
    /\ Install(standalone_ack_flush(State), [name |-> "standalone_ack_flush"])
    /\ UNCHANGED received

\* the monotonic clock advances by the longer of the two intervals: both
\* deadlines set at 0 lie ahead at 0 and have elapsed at the next reading
AdvanceTime ==
    /\ now + MRP_STANDALONE_ACK_TIMEOUT_MS <= MaxTime
    /\ now' = now + MRP_STANDALONE_ACK_TIMEOUT_MS
    /\ sent' = <<>>
    /\ ret' = "None"
    /\ op' = [name |-> "time"]
    /\ UNCHANGED <<initiator, exchange_id, protocols, pending_acknowledgement,
                   send_standalone_time, next_retransmission_time,
                   pending_retransmission, pending_payloads, closing,
                   initiator_exchanges, responder_exchanges, message_counter,
                   received, acks>>

\* Exchange.__init__
Init ==
    /\ initiator \in BOOLEAN
    /\ exchange_id = 0
    /\ protocols = {INTERACTION_MODEL}
    /\ initiator_exchanges = IF initiator THEN {exchange_id} ELSE {}
    /\ responder_exchanges = IF initiator THEN {} ELSE {exchange_id}
    /\ pending_acknowledgement = None
    /\ send_standalone_time = None
    /\ next_retransmission_time = None
    /\ pending_retransmission = NoMessage
    /\ pending_payloads = <<>>
    /\ closing = FALSE
    /\ message_counter = 0
    /\ received = {}
    /\ now = 0
    /\ sent = <<>>
    /\ op = [name |-> "init"]
    /\ ret = "None"
    /\ acks = [c \in PeerCounters |-> "none"]

Next ==
    \/ Send
    \/ SendStandalone
    \/ Queue
    \/ Receive
    \/ Close
    \/ ResendPending
    \/ StandaloneAckFlush
    \/ AdvanceTime

Spec == Init /\ [][Next]_vars

\* the event loop keeps calling its ticks and the clock keeps advancing
FairSpec == Spec /\ WF_vars(ResendPending) /\ WF_vars(AdvanceTime)

-----------------------------------------------------------------------------
(* The queue of payloads on its own: the application sends and queues, with  *)
(* a longer queue than above and each call recorded with all its arguments. *)

\* pending_payloads holds at most MaxQueue payloads here
MaxQueue == MaxPayloads + 2

\* the application sends a payload
SendPayload ==
    \E application_payload \in Payloads, more \in BOOLEAN, reliable \in BOOLEAN :
        LET s == send(State, application_payload, more,
                      PROTOCOL_ID(application_payload),
                      PROTOCOL_OPCODE(application_payload), reliable)
        IN  /\ more => IsChunked(application_payload)
            /\ s.message_counter <= MaxSends
            /\ Len(s.pending_payloads) <= MaxQueue
            /\ InstallState(s, [name |-> "send", reliable |-> reliable,
                                application_payload |-> application_payload,
                                more |-> more])
            /\ UNCHANGED received

\* the application queues a payload
QueuePayload ==
    \E payload \in Payloads :
        LET s == queue(State, payload)
        IN  /\ Len(s.pending_payloads) <= MaxQueue
            /\ InstallState(s, [name |-> "queue", payload |-> payload])
            /\ UNCHANGED received

QueueNext ==
    \/ SendPayload
    \/ QueuePayload

QueueSpec == Init /\ [][QueueNext]_vars

-----------------------------------------------------------------------------
(* The registries with other exchanges of the session in them: the session  *)
(* constructs and closes other exchanges, of both roles, while the exchange *)
(* is used.  The clock stands still.                                        *)

\* exchange ids of the session
ExchangeIds == {0, 1}

\* the registry entries of other exchanges, as <<initiator, exchange_id>>
OtherExchanges ==
    ( ({TRUE} \X initiator_exchanges) \cup ({FALSE} \X responder_exchanges) )
        \ {<<initiator, exchange_id>>}

\* the session constructs another Exchange with role other_initiator under
\* other_id: Exchange.__init__, lines 37-40.  The other exchange of the same
\* role has another id (the session gives out an id once for a role), the
\* one of the other role has the same id; one other exchange is open at a
\* time.
NewExchange ==
    \E other_initiator \in BOOLEAN, other_id \in ExchangeIds :
        /\ (other_initiator = initiator) <=> (other_id # exchange_id)
        /\ OtherExchanges = {}
        /\ IF other_initiator
           THEN /\ other_id \notin initiator_exchanges
                /\ initiator_exchanges' = initiator_exchanges \cup {other_id}
                /\ UNCHANGED responder_exchanges
           ELSE /\ other_id \notin responder_exchanges
                /\ responder_exchanges' = responder_exchanges \cup {other_id}
                /\ UNCHANGED initiator_exchanges
        /\ sent' = <<>>
        /\ ret' = "None"
        /\ op' = [name |-> "new_exchange"]
        /\ UNCHANGED <<initiator, exchange_id, protocols, pending_acknowledgement,
                       send_standalone_time, next_retransmission_time,
                       pending_retransmission, pending_payloads, closing,
                       message_counter, received, now, acks>>

\* another exchange, with nothing outstanding, is closed: Exchange.close,
\* lines 170-173, with the other exchange as self
CloseOther ==
    \E other_initiator \in BOOLEAN, other_id \in ExchangeIds :
        /\ <<other_initiator, other_id>> \in OtherExchanges
        /\ IF other_initiator
           THEN /\ other_id \in initiator_exchanges
                /\ initiator_exchanges' = initiator_exchanges \ {other_id}
                /\ UNCHANGED responder_exchanges
           ELSE /\ other_id \in responder_exchanges
                /\ responder_exchanges' = responder_exchanges \ {other_id}
                /\ UNCHANGED initiator_exchanges
        /\ sent' = <<>>
        /\ ret' = "None"
        /\ op' = [name |-> "close_other"]
        /\ UNCHANGED <<initiator, exchange_id, protocols, pending_acknowledgement,
                       send_standalone_time, next_retransmission_time,
                       pending_retransmission, pending_payloads, closing,
                       message_counter, received, now, acks>>

RegistryNext ==
    \/ Send
    \/ SendStandalone
    \/ Queue
    \/ Receive
    \/ Close
    \/ ResendPending
    \/ StandaloneAckFlush
    \/ NewExchange
    \/ CloseOther

RegistrySpec == Init /\ [][RegistryNext]_vars

-----------------------------------------------------------------------------
(* Vocabulary of the properties *)

\* message m acknowledges peer counter c
Acknowledges(m, c) ==
    /\ "A" \in m.exchange_flags
    /\ m.acknowledged_message_counter = c

\* message m is a standalone acknowledgement
IsStandaloneAck(m) ==
    /\ m.protocol_id = SECURE_CHANNEL
    /\ m.protocol_opcode = MRP_STANDALONE_ACK

\* the registry of the exchange's role, and the other one
OwnRegistry == IF initiator THEN initiator_exchanges ELSE responder_exchanges

OtherRegistry == IF initiator THEN responder_exchanges ELSE initiator_exchanges

\* the inbound message recorded in m passes the acknowledgement checks of
\* receive in the current state: it carries an acknowledged counter (and so
\* the flag), and the counter of the outstanding message if there is one
MatchingAcknowledgement(m) ==
    /\ m.acknowledged_message_counter # None
    /\ \/ pending_retransmission = NoMessage
       \/ m.acknowledged_message_counter = pending_retransmission.message_counter

\* the messages receive can be given in the current state
Receivable ==
    IF Registered(State) THEN { m \in InboundMessages : WellFormed(m) } ELSE {}

-----------------------------------------------------------------------------
(* Properties *)

\* C1: when receive accepts a reliable, non-duplicate message of an accepted
\* protocol while pending_acknowledgement holds an earlier counter, so that
\* the earlier counter is overwritten, the call hands the session a message
\* that acknowledges the earlier counter.
C1_OwedAckSentBeforeOverwrite ==
    [][ ( /\ op'.name = "receive"
          /\ ret' = "False"
          /\ pending_acknowledgement # None
          /\ pending_acknowledgement' # pending_acknowledgement )
        => \E i \in DOMAIN sent' : Acknowledges(sent'[i], pending_acknowledgement)
      ]_vars

\* C2: a reliable send is rejected exactly when a retransmission is
\* outstanding; a rejected send hands nothing over, an accepted one installs
\* the message it sent as pending_retransmission; and a receive that accepts
\* the acknowledgement of the outstanding message leaves none outstanding, so
\* that the next reliable send is accepted.
C2_ReliableSendGate ==
    [][ /\ ( op'.name = "send" /\ op'.reliable ) =>
              IF pending_retransmission # NoMessage
              THEN /\ ret' = "RuntimeError"
                   /\ sent' = <<>>
                   /\ pending_retransmission' = pending_retransmission
              ELSE /\ ret' = "None"
                   /\ Len(sent') = 1
                   /\ "R" \in sent'[1].exchange_flags
                   /\ pending_retransmission' = sent'[1]
        /\ ( /\ op'.name = "receive"
             /\ pending_retransmission # NoMessage
             /\ MatchingAcknowledgement(op') ) =>
              pending_retransmission' = NoMessage
        /\ ( pending_retransmission = NoMessage /\ pending_retransmission' # NoMessage )
              => ( op'.name = "send" /\ op'.reliable )
      ]_vars

\* a reliable send accepted on an exchange that is closing and still
\* registered: close found an earlier message outstanding, and that message
\* was acknowledged before this send
C2_Witness ==
    /\ op.name = "send"
    /\ op.reliable
    /\ ret = "None"
    /\ closing
    /\ Registered(State)
    /\ sent = <<pending_retransmission>>
    /\ pending_retransmission.message_counter > 0

\* C3: a resend_pending tick at or after next_retransmission_time hands
\* exactly one copy of the pending message to the session; a tick before the
\* deadline, or with nothing outstanding, hands nothing over; no tick changes
\* the exchange otherwise.
C3_TickRetransmitsOnce ==
    [][ op'.name = "resend_pending" =>
          IF /\ pending_retransmission # NoMessage
             /\ now >= next_retransmission_time
          THEN sent' = <<pending_retransmission>>
          ELSE /\ sent' = <<>>
               /\ pending_retransmission' = pending_retransmission
               /\ next_retransmission_time' = next_retransmission_time
      ]_vars

\* C4: an exchange closed while a retransmission is outstanding is
\* eventually removed from its registry, acknowledged or not.
C4_ClosedExchangeEventuallyDeregistered ==
    ( closing /\ pending_retransmission # NoMessage /\ Registered(State) )
        ~> ~Registered(State)

\* C5: receive drops every message the transport marked duplicate, so of
\* the messages with one counter only the first can be delivered.
C5_DuplicateAlwaysDropped ==
    ( op.name = "receive" /\ op.duplicate ) => ret = "True"

\* a duplicate that carried no acknowledged counter, dropped while a message
\* is outstanding without a resend of it
C5_Witness ==
    /\ op.name = "receive"
    /\ op.duplicate
    /\ op.acknowledged_message_counter = None
    /\ ret = "True"
    /\ sent = <<>>
    /\ pending_retransmission # NoMessage

\* C6: the acknowledgement of an accepted reliable counter is generated
\* exactly once: a call in which the exchange stops owing a counter has
\* generated its acknowledgement by then, and no call builds an
\* acknowledgement of a counter that has one already.
C6_AckGeneratedExactlyOnce ==
    [][ /\ ( /\ pending_acknowledgement # None
             /\ pending_acknowledgement' # pending_acknowledgement )
           => acks'[pending_acknowledgement] # "none"
        /\ \A c \in PeerCounters :
              acks[c] # "none" => GeneratedAs(sent', message_counter, c) = "none"
      ]_vars

\* C7: a standalone-ack flush tick at or after send_standalone_time, with
\* counter c owed, hands the session exactly one standalone acknowledgement
\* of c and leaves pending_acknowledgement and send_standalone_time empty.
C7_FlushSendsStandaloneAck ==
    [][ ( /\ op'.name = "standalone_ack_flush"
          /\ pending_acknowledgement # None
          /\ send_standalone_time # None
          /\ now >= send_standalone_time )
        => /\ Len(sent') = 1
           /\ IsStandaloneAck(sent'[1])
           /\ Acknowledges(sent'[1], pending_acknowledgement)
           /\ pending_acknowledgement' = None
           /\ send_standalone_time' = None
      ]_vars

\* C8: an accepted send while counter c is owed hands over one message that
\* acknowledges c and clears pending_acknowledgement and
\* send_standalone_time in the same step; and no standalone acknowledgement
\* is handed over for a counter whose acknowledgement was piggybacked.
C8_PiggybackedAckNotRepeated ==
    /\ [][ ( /\ op'.name = "send"
             /\ ret' = "None"
             /\ pending_acknowledgement # None )
           => /\ Len(sent') = 1
              /\ ~IsStandaloneAck(sent'[1])
              /\ Acknowledges(sent'[1], pending_acknowledgement)
              /\ pending_acknowledgement' = None
              /\ send_standalone_time' = None
         ]_vars
    /\ [] ( \A i \in DOMAIN sent :
              ( IsStandaloneAck(sent[i]) /\ "A" \in sent[i].exchange_flags )
                 => acks[sent[i].acknowledged_message_counter] # "piggybacked" )

\* a flush tick past the standalone deadline of a counter whose
\* acknowledgement went out on an application message: nothing is sent
C8_Witness ==
    /\ op.name = "standalone_ack_flush"
    /\ now >= MRP_STANDALONE_ACK_TIMEOUT_MS
    /\ \E c \in PeerCounters : acks[c] = "piggybacked"
    /\ pending_acknowledgement = None
    /\ sent = <<>>

\* C9: when receive accepts a matching acknowledgement on a registered
\* exchange that is closing, the exchange leaves the registry of its role if
\* pending_payloads is empty and stays in it otherwise; the other registry
\* is not touched.
C9_ClosingDestroyedOnAck ==
    [][ ( /\ op'.name = "receive"
          /\ closing
          /\ Registered(State)
          /\ MatchingAcknowledgement(op') )
        => /\ OtherRegistry' = OtherRegistry
           /\ IF pending_payloads = <<>>
              THEN OwnRegistry' = OwnRegistry \ {exchange_id}
              ELSE OwnRegistry' = OwnRegistry
      ]_vars

\* the acknowledgement of the outstanding message destroyed a closing exchange
C9_Witness ==
    /\ op.name = "receive"
    /\ op.acknowledged_message_counter # None
    /\ closing
    /\ pending_payloads = <<>>
    /\ pending_retransmission = NoMessage
    /\ ~Registered(State)

\* C10: close sets closing; with a retransmission outstanding it hands the
\* pending message to the session once, keeps it pending and leaves both
\* registries as they are; otherwise it hands nothing over and the exchange
\* is not in its registry afterwards.
C10_Close ==
    [][ op'.name = "close" =>
          /\ closing'
          /\ OtherRegistry' = OtherRegistry
          /\ IF pending_retransmission # NoMessage
             THEN /\ sent' = <<pending_retransmission>>
                  /\ pending_retransmission' = pending_retransmission
                  /\ OwnRegistry' = OwnRegistry
             ELSE /\ sent' = <<>>
                  /\ exchange_id \notin OwnRegistry'
      ]_vars

\* close with a retransmission outstanding: resent, still registered
C10_Witness ==
    /\ op.name = "close"
    /\ closing
    /\ pending_retransmission # NoMessage
    /\ sent = <<pending_retransmission>>
    /\ Registered(State)

\* C11: in every reachable state pending_acknowledgement is present exactly
\* when send_standalone_time is present.
C11_AckAndDeadlineTogether ==
    ( pending_acknowledgement # None ) <=> ( send_standalone_time # None )

\* C13: a send rejected because a retransmission is outstanding hands
\* nothing to the session and changes nothing: the outstanding message and
\* its deadline, the owed acknowledgement and its deadline, the queue,
\* closing and both registries are as before.
C13_RejectedSendHasNoEffect ==
    [][ ( op'.name = "send" /\ ret' = "RuntimeError" )
        => /\ pending_retransmission # NoMessage
           /\ sent' = <<>>
           /\ UNCHANGED <<pending_retransmission, next_retransmission_time,
                          pending_acknowledgement, send_standalone_time,
                          pending_payloads, closing, initiator_exchanges,
                          responder_exchanges, message_counter>>
      ]_vars

\* a rejected send on an exchange that owes an acknowledgement: the
\* acknowledgement is still owed
C13_Witness ==
    /\ op.name = "send"
    /\ ret = "RuntimeError"
    /\ sent = <<>>
    /\ pending_retransmission # NoMessage
    /\ pending_acknowledgement # None
    /\ send_standalone_time # None

\* C14: a receive given a message whose protocol id is not among protocols
\* returns drop, hands nothing to the session and leaves
\* pending_acknowledgement and send_standalone_time as they were, with the
\* Reliability flag or without; pending_retransmission, its deadline and the
\* registries change only by the processing of a matching acknowledgement
\* the message carries.
C14_ProtocolMismatchDropped ==
    \A m \in Receivable :
        m.protocol_id \notin protocols =>
            LET after == receive(State, m)
                own == IF initiator THEN after.initiator_exchanges
                                    ELSE after.responder_exchanges
                other == IF initiator THEN after.responder_exchanges
                                      ELSE after.initiator_exchanges
            IN  /\ after.ret = "True"
                /\ after.sent = <<>>
                /\ after.pending_acknowledgement = pending_acknowledgement
                /\ after.send_standalone_time = send_standalone_time
                /\ after.pending_payloads = pending_payloads
                /\ after.closing = closing
                /\ IF MatchingAcknowledgement(m)
                   THEN /\ after.pending_retransmission = NoMessage
                        /\ after.next_retransmission_time = None
                        /\ other = OtherRegistry
                        /\ own \in {OwnRegistry, OwnRegistry \ {exchange_id}}
                   ELSE /\ after.pending_retransmission = pending_retransmission
                        /\ after.next_retransmission_time = next_retransmission_time
                        /\ after.initiator_exchanges = initiator_exchanges
                        /\ after.responder_exchanges = responder_exchanges

\* a message that is not a duplicate and whose acknowledgement was accepted
\* and destroyed the closing exchange, dropped all the same: its protocol id
\* is not among protocols
C14_Witness ==
    /\ op.name = "receive"
    /\ ~op.duplicate
    /\ op.acknowledged_message_counter # None
    /\ pending_retransmission = NoMessage
    /\ ret = "True"
    /\ sent = <<>>
    /\ closing
    /\ ~Registered(State)

\* C15: a receive given a message with the Acknowledgement flag and no
\* acknowledged counter, or with a counter other than that of the
\* outstanding message, returns drop without an error, hands nothing to the
\* session and changes nothing, whatever the other flags, the protocol and
\* the state of the exchange.
C15_BadAcknowledgementDropped ==
    \A m \in Receivable :
        ( /\ "A" \in m.exchange_flags
          /\ \/ m.acknowledged_message_counter = None
             \/ /\ pending_retransmission # NoMessage
                /\ m.acknowledged_message_counter
                       # pending_retransmission.message_counter )
        => receive(State, m) = [State EXCEPT !.ret = "True"]

\* a closing exchange that is still registered and still has its message
\* outstanding after a receive that carried another counter
C15_Witness ==
    /\ op.name = "receive"
    /\ op.acknowledged_message_counter # None
    /\ pending_retransmission # NoMessage
    /\ op.acknowledged_message_counter # pending_retransmission.message_counter
    /\ ret = "True"
    /\ sent = <<>>
    /\ closing
    /\ Registered(State)

\* C16: send_standalone with a retransmission outstanding hands the stored
\* pending message to the session once and changes nothing of the exchange;
\* with none outstanding it hands over one message with the
\* standalone-acknowledgement opcode, without the Reliability flag and
\* without a payload, and installs no pending_retransmission.
C16_SendStandalone ==
    [][ op'.name = "send_standalone" =>
          IF pending_retransmission # NoMessage
          THEN /\ sent' = <<pending_retransmission>>
               /\ ret' = "None"
               /\ UNCHANGED <<pending_acknowledgement, send_standalone_time,
                              pending_retransmission, next_retransmission_time,
                              pending_payloads, closing, initiator_exchanges,
                              responder_exchanges, message_counter>>
          ELSE /\ Len(sent') = 1
               /\ IsStandaloneAck(sent'[1])
               /\ "R" \notin sent'[1].exchange_flags
               /\ sent'[1].application_payload = "None"
               /\ sent'[1].message_counter = message_counter
               /\ ret' = "None"
               /\ pending_retransmission' = NoMessage
               /\ UNCHANGED <<next_retransmission_time, pending_payloads,
                              closing, initiator_exchanges, responder_exchanges>>
      ]_vars

\* send_standalone on an exchange that owes an acknowledgement while its
\* own message is outstanding: the pending message went out again
C16_Witness ==
    /\ op.name = "send_standalone"
    /\ pending_retransmission # NoMessage
    /\ sent = <<pending_retransmission>>
    /\ pending_acknowledgement # None
    /\ send_standalone_time # None

\* C17: an accepted send of a chunked payload that reports more chunks puts
\* that payload in front of pending_payloads and keeps what was queued, in
\* its order, behind it; any other send leaves the queue as it was; queue
\* appends its payload at the back.
C17_ChunkRequeuedAtFront ==
    [][ /\ op'.name = "send" =>
              pending_payloads' =
                  IF /\ ret' = "None"
                     /\ IsChunked(op'.application_payload)
                     /\ op'.more
                  THEN <<op'.application_payload>> \o pending_payloads
                  ELSE pending_payloads
        /\ op'.name = "queue" =>
              pending_payloads' = pending_payloads \o <<op'.payload>>
      ]_vars

\* a chunked payload with more chunks sent while a plain and a chunked
\* payload were queued, in that order
C17_Witness ==
    /\ op.name = "send"
    /\ op.more
    /\ ret = "None"
    /\ pending_payloads = <<"chunked", "plain", "chunked">>

\* C18: every message with the standalone-acknowledgement opcode handed to
\* the session has the Acknowledgement flag and carries an acknowledged
\* counter.
C18_StandaloneAckAcknowledges ==
    \A i \in DOMAIN sent :
        IsStandaloneAck(sent[i]) =>
            /\ "A" \in sent[i].exchange_flags
            /\ sent[i].acknowledged_message_counter # None

\* C19: no call tries to remove the exchange from a registry it is no longer
\* in: no pop of the exchange id raises KeyError.
C19_RemovedAtMostOnce ==
    ret # "KeyError"

\* C20: whenever a call removes the exchange from its registry, the
\* exchange owes no acknowledgement, or an acknowledgement of the counter it
\* owes has been handed to the session by then.
C20_NotDestroyedOwingAck ==
    [][ ( Registered(State) /\ exchange_id \notin OwnRegistry' )
        => \/ pending_acknowledgement' = None
           \/ acks'[pending_acknowledgement'] # "none"
      ]_vars

\* the calls of the exchange itself
OwnCalls ==
    {"send", "send_standalone", "queue", "receive", "close", "resend_pending",
     "standalone_ack_flush"}

\* C12: the exchange is in the registry of its role, under its own id, from
\* construction on; only its destruction takes it out, by close with
\* nothing outstanding or by an acknowledgement accepted while it is closing
\* with no payload queued; it is not registered again afterwards; and its
\* calls change nothing else in either registry, so that it never appears in
\* the registry of the other role, whatever other exchanges are constructed
\* and closed.
C12_RegisteredUntilDestroyed ==
    /\ [] ( ~closing => Registered(State) )
    /\ [][ /\ ( Registered(State) /\ exchange_id \notin OwnRegistry' )
              => \/ op'.name = "close" /\ pending_retransmission = NoMessage
                 \/ /\ op'.name = "receive"
                    /\ MatchingAcknowledgement(op')
                    /\ closing
                    /\ pending_payloads = <<>>
           /\ ~Registered(State) => exchange_id \notin OwnRegistry'
           /\ op'.name \in OwnCalls
              => /\ OtherRegistry' = OtherRegistry
                 /\ OwnRegistry' \in {OwnRegistry, OwnRegistry \ {exchange_id}}
           /\ UNCHANGED <<initiator, exchange_id>>
         ]_vars

\* the exchange destroyed by an acknowledgement while an exchange of the
\* other role is registered under the same id: that one is still registered
C12_Witness ==
    /\ op.name = "receive"
    /\ op.acknowledged_message_counter # None
    /\ closing
    /\ ~Registered(State)
    /\ exchange_id \in OtherRegistry

====
